---- MODULE Spec2Model ----
(***************************************************************************)
(* A model of the deflate encoder's longest-match search                   *)
(* (src/src/matching.rs), of the dynamic block header writer               *)
(* (src/src/huffman_lengths.rs) and of the zlib entry point                *)
(* (src/src/lib.rs).                                                       *)
(*                                                                         *)
(* The window size and the maximum match length are scaled down from       *)
(* 32768 and 258 so that the window edge and the length cap are reached on *)
(* inputs of a few bytes; the minimum match length 3 and the no-match      *)
(* length 2 are kept.                                                      *)
(***************************************************************************)
EXTENDS Integers, Sequences, FiniteSets, TLC

\* Longest input handed to the matcher.
MaxLen == 7
\* chained_hash_table::WINDOW_SIZE, scaled (32768 in the program).
WINDOW_SIZE == 3
\* huffman_table::MAX_MATCH, scaled (258 in the program).
MAX_MATCH == 4
\* Largest max_hash_checks handed to the matcher.
MaxChecks == 3
\* Longest input handed to deflate_bytes_conf and deflate_bytes_zlib_conf; it
\* fits the input buffer of 2 * WINDOW_SIZE bytes.
MaxInput == 6
\* Longest run of one length at the start of the literal/length lengths.
MaxHeadRun == 5
\* Most literal/length lengths beyond the 257 always present.
MaxExtraLit == 1
\* Longest run of one length at the start of the distance lengths.
MaxDistRun == 3
\* Most zero lengths at the end of the distance lengths.
MaxDistZeros == 4

\* The byte values the inputs are drawn from.
Alphabet == {0, 1}

\* The byte values the inputs of the entry points are drawn from: one with a
\* fixed code of 8 bits and one with a fixed code of 9 bits.
ByteSet == {97, 200}

Min(a, b) == IF a < b THEN a ELSE b

Max(a, b) == IF a < b THEN b ELSE a

\* All byte strings of length 1..MaxLen over Alphabet.
DataSet == UNION {[1..n -> Alphabet] : n \in 1..MaxLen}

\* The contents of the hash table's prev array, one entry per window slot, for
\* a search at pos. The walk only compares an entry with the position it came
\* from, which is at most pos, so an entry of pos stands for every entry >= pos.
TableSet(pos) == [0..(WINDOW_SIZE - 1) -> 0..pos]

VARIABLES
    \* longest_match: arguments
    data, hash_table, position, prev_length, max_hash_checks,
    \* longest_match: locals and control
    pc, limit, max_length, current_head, best_length, best_distance,
    iters, prev_head, examined, ret,
    \* write_huffman_lengths: arguments, the bit writer and standard output
    literal_len_lengths, distance_lenghts, writer, stdout,
    \* write_huffman_lengths: locals and control
    hpc, hlit, hdist, hclen, huffman_table_lengths, encoded, idx,
    \* deflate_bytes_conf and deflate_bytes_zlib_conf: arguments, the byte
    \* vector returned, the checksum and control
    input, options, wrapped, sink, checksum, zpc,
    \* the compressor: the LZ77 driver's position and held match, the heads of
    \* the hash table, the block buffer and the block's encoding
    lz_position, lz_prev, heads, symbols, btype

matchArgs == <<data, hash_table, position, prev_length, max_hash_checks>>

matchLocals == <<limit, max_length, current_head, best_length, best_distance,
                 iters, prev_head>>

matchVars == <<matchArgs, matchLocals, pc, examined, ret>>

headerArgs == <<literal_len_lengths, distance_lenghts>>

headerLocals == <<hlit, hdist, hclen, huffman_table_lengths, encoded>>

headerVars == <<headerArgs, headerLocals, writer, stdout, hpc, idx>>

entryVars == <<input, options, wrapped, sink, checksum, zpc>>

compressVars == <<lz_position, lz_prev, heads, symbols, btype>>

zlibVars == <<entryVars, compressVars>>

vars == <<matchVars, headerVars, zlibVars>>

\* ------------------------------------------------------------ matching.rs

\* data is 1-indexed here; At(d, i) is the program's d[i].
At(d, i) == d[i + 1]

\* ChainedHashTable::get_prev: the position that previously shared the bucket
\* of pos, read from the slot pos mod WINDOW_SIZE.
get_prev(table, pos) == table[pos % WINDOW_SIZE]

RECURSIVE CountEqual(_, _, _, _)
\* zip(data[p..], data[q..]).take(n).take_while(a == b).count()
CountEqual(d, p, q, n) ==
    IF n = 0 \/ p >= Len(d) \/ q >= Len(d) THEN 0
    ELSE IF At(d, p) # At(d, q) THEN 0
    ELSE 1 + CountEqual(d, p + 1, q + 1, n - 1)

\* get_match_length with take(MAX_MATCH + 1): the cap off by one.
get_match_length_cap_off_by_one(d, current_pos, pos_to_check) ==
    CountEqual(d, current_pos, pos_to_check, MAX_MATCH + 1)

\* get_match_length without its take_while: the bytes are counted, not compared.
get_match_length_uncompared(d, current_pos, pos_to_check) ==
    Min(MAX_MATCH, Min(Len(d) - current_pos, Len(d) - pos_to_check))

get_match_length(d, current_pos, pos_to_check) ==
    CountEqual(d, current_pos, pos_to_check, MAX_MATCH)

\* A direct call get_match_length(data, position, current_head), as the unit
\* test match_length makes: any two positions of the data.
MatchLengthCall ==
    /\ pc = "length_call"
    /\ ret' = <<get_match_length(data, position, current_head), 0>>
    /\ pc' = "length_done"
    /\ UNCHANGED <<matchArgs, matchLocals, examined, headerVars, zlibVars>>

\* The slice d[lo..hi] of the pre-filter is in bounds (lo computed in usize:
\* a negative lo is a subtraction overflow, or a start past the end once wrapped).
SliceOk(d, lo, hi) == lo >= 0 /\ lo <= hi /\ hi <= Len(d)

\* d[lo..hi] as a sequence.
Slice(d, lo, hi) == [i \in 1..(hi - lo) |-> At(d, lo + i - 1)]

\* Lines 76-101: the early returns and the set-up of the walk.
LongestMatchEntry ==
    /\ pc = "call"
    /\ IF position = 0 \/ prev_length >= MAX_MATCH
          \/ position + prev_length >= Len(data)
       THEN /\ ret' = <<2, 0>>
            /\ pc' = "done"
            /\ UNCHANGED matchLocals
       ELSE LET head == get_prev(hash_table, position) IN
            /\ limit' = IF position > WINDOW_SIZE THEN position - WINDOW_SIZE ELSE 0
            /\ max_length' = Min(Len(data) - position, MAX_MATCH)
            /\ current_head' = head
            /\ IF head >= position
               THEN /\ ret' = <<2, 0>>
                    /\ pc' = "done"
                    /\ UNCHANGED <<best_length, best_distance, iters, prev_head>>
               ELSE /\ best_length' = prev_length
                    /\ best_distance' = 0
                    /\ iters' = 0
                    /\ prev_head' = 0
                    /\ pc' = "loop"
                    /\ UNCHANGED ret
    /\ UNCHANGED <<matchArgs, examined, headerVars, zlibVars>>

\* The pre-filter of lines 105-106: the two bytes at offsets best_length - 1
\* and best_length of the position and of the candidate are equal.
PreFilter(d, pos, head, best) ==
    Slice(d, pos + best - 1, pos + best + 1) = Slice(d, head + best - 1, head + best + 1)

\* One pass of the while loop without the test of lines 121-126: the walk
\* goes on to a chain entry that is not below the one it came from.
LongestMatchIter_unguarded ==
    /\ pc = "loop"
    /\ current_head >= limit /\ iters < max_hash_checks
    /\ examined' = Append(examined, current_head)
    /\ IF ~SliceOk(data, position + best_length - 1, position + best_length + 1)
          \/ ~SliceOk(data, current_head + best_length - 1, current_head + best_length + 1)
       THEN /\ pc' = "panic"
            /\ UNCHANGED <<matchLocals, ret>>
       ELSE LET length == get_match_length(data, position, current_head)
                better == PreFilter(data, position, current_head, best_length)
                          /\ length > best_length
            IN  /\ best_length' = IF better THEN length ELSE best_length
                /\ best_distance' = IF better THEN position - current_head
                                    ELSE best_distance
                /\ IF better /\ length = max_length
                   THEN /\ pc' = "exit"
                        /\ UNCHANGED <<prev_head, current_head, iters>>
                   ELSE /\ prev_head' = current_head
                        /\ current_head' = get_prev(hash_table, current_head)
                        /\ pc' = "loop"
                        /\ iters' = iters + 1
                /\ UNCHANGED <<limit, max_length, ret>>
    /\ UNCHANGED <<matchArgs, headerVars, zlibVars>>

\* Lines 103-128: one pass of the while loop.
LongestMatchIter ==
    /\ pc = "loop"
    /\ current_head >= limit /\ iters < max_hash_checks
    /\ examined' = Append(examined, current_head)
    /\ IF ~SliceOk(data, position + best_length - 1, position + best_length + 1)
          \/ ~SliceOk(data, current_head + best_length - 1, current_head + best_length + 1)
       THEN /\ pc' = "panic"
            /\ UNCHANGED <<matchLocals, ret>>
       ELSE LET length == get_match_length(data, position, current_head)
                better == PreFilter(data, position, current_head, best_length)
                          /\ length > best_length
                next == get_prev(hash_table, current_head)
            IN  /\ best_length' = IF better THEN length ELSE best_length
                /\ best_distance' = IF better THEN position - current_head
                                    ELSE best_distance
                /\ IF better /\ length = max_length
                   THEN /\ pc' = "exit"
                        /\ UNCHANGED <<prev_head, current_head, iters>>
                   ELSE /\ prev_head' = current_head
                        /\ current_head' = next
                        /\ IF next >= current_head
                           THEN pc' = "exit" /\ UNCHANGED iters
                           ELSE pc' = "loop" /\ iters' = iters + 1
                /\ UNCHANGED <<limit, max_length, ret>>
    /\ UNCHANGED <<matchArgs, headerVars, zlibVars>>

\* Line 103: the loop condition fails.
LongestMatchLoopEnd ==
    /\ pc = "loop"
    /\ ~(current_head >= limit /\ iters < max_hash_checks)
    /\ pc' = "exit"
    /\ UNCHANGED <<matchArgs, matchLocals, examined, ret, headerVars, zlibVars>>

\* Lines 130-136: the result.
LongestMatchReturn ==
    /\ pc = "exit"
    /\ ret' = <<IF best_length > prev_length THEN best_length ELSE 2, best_distance>>
    /\ pc' = "done"
    /\ UNCHANGED <<matchArgs, matchLocals, examined, headerVars, zlibVars>>

\* ----------------------------------------------------- huffman_lengths.rs

\* The order in which the lengths of the code-length codes are written.
HUFFMAN_LENGTH_ORDER == <<16, 17, 18, 0, 8, 7, 9, 6, 10, 5, 11, 4, 12, 3, 13, 2, 14, 1, 15>>

HLIT_BITS == 5

HDIST_BITS == 5

HCLEN_BITS == 4

MAX_HUFFMAN_CODE_LENGTH == 7

\* The literal/length lengths a block header always covers (symbols 0..=256).
MIN_LITERAL_LENGTHS == 257

\* length_encode: the three run symbols of the code-length alphabet.
COPY_PREVIOUS == 16

REPEAT_ZERO_3_BITS == 17

REPEAT_ZERO_7_BITS == 18

\* The code-length alphabet: lengths 0..15 and the three run symbols.
MetaSymbols == 0..REPEAT_ZERO_7_BITS

\* n copies of v.
Rep(v, n) == [i \in 1..n |-> v]

\* The number of entries of l equal to l[i], from i on.
RunLen(l, i) ==
    LET other == {j \in i..Len(l) : l[j] # l[i]} IN
    IF other = {} THEN Len(l) - i + 1
    ELSE (CHOOSE j \in other : \A k \in other : j <= k) - i

RECURSIVE EncodeFrom(_, _, _)
\* length_encode::encode_lengths from entry i on, prev being the length sent
\* last: a zero run of 11..138 is one RepeatZero7Bits, one of 3..10 one
\* RepeatZero3Bits, a run of a non-zero length is the length itself and then
\* CopyPrevious of 3..6 for the rest.
EncodeFrom(l, i, prev) ==
    IF i > Len(l) THEN <<>>
    ELSE LET v == l[i]
             run == RunLen(l, i)
         IN  IF v = 0 /\ run >= 11
             THEN <<<<"RepeatZero7Bits", Min(run, 138)>>>>
                      \o EncodeFrom(l, i + Min(run, 138), 0)
             ELSE IF v = 0 /\ run >= 3
             THEN <<<<"RepeatZero3Bits", run>>>> \o EncodeFrom(l, i + run, 0)
             ELSE IF v # 0 /\ v = prev /\ run >= 3
             THEN <<<<"CopyPrevious", Min(run, 6)>>>>
                      \o EncodeFrom(l, i + Min(run, 6), v)
             ELSE <<<<"Length", v>>>> \o EncodeFrom(l, i + 1, v)

\* The symbol of the code-length alphabet an EncodedLength is sent with.
SymbolOf(e) ==
    IF e[1] = "Length" THEN e[2]
    ELSE IF e[1] = "CopyPrevious" THEN COPY_PREVIOUS
    ELSE IF e[1] = "RepeatZero3Bits" THEN REPEAT_ZERO_3_BITS
    ELSE REPEAT_ZERO_7_BITS

\* encode_lengths(lengths): the encoded lengths and how often each symbol occurs.
encode_lengths(lengths) ==
    LET enc == EncodeFrom(lengths, 1, -1) IN
    <<enc, [s \in MetaSymbols |-> Cardinality({i \in 1..Len(enc) : SymbolOf(enc[i]) = s})]>>

\* The node of least weight, the lower symbol first among equals.
Lightest(nodes) ==
    CHOOSE a \in nodes : \A b \in nodes : a.w < b.w \/ (a.w = b.w /\ a.id <= b.id)

RECURSIVE HuffmanDepths(_, _)
\* Huffman's algorithm: merge the two lightest nodes until one is left; every
\* merge puts the symbols below it one level deeper.
HuffmanDepths(nodes, depth) ==
    IF Cardinality(nodes) <= 1 THEN depth
    ELSE LET a == Lightest(nodes)
             b == Lightest(nodes \ {a})
             m == [w |-> a.w + b.w, id |-> Min(a.id, b.id), syms |-> a.syms \cup b.syms]
         IN  HuffmanDepths((nodes \ {a, b}) \cup {m},
                           [s \in DOMAIN depth |-> IF s \in m.syms THEN depth[s] + 1
                                                   ELSE depth[s]])

\* length_encode::huffman_lengths_from_frequency: one code length per entry of
\* the frequency vector, 0 for an unused symbol; a single used symbol gets a
\* second code of length 1 beside it. The symbols drawn here are at most
\* seven, so no code is longer than max_len and no length is redistributed.
huffman_lengths_from_frequency(freqs, max_len) ==
    LET used == {s \in DOMAIN freqs : freqs[s] > 0}
        nodes == {[w |-> freqs[s], id |-> s, syms |-> {s}] : s \in used}
        zero == [s \in DOMAIN freqs |-> 0]
    IN  IF Cardinality(used) = 1
        THEN LET only == CHOOSE s \in used : TRUE
                 other == IF only = 0 THEN 1 ELSE 0
             IN  [s \in DOMAIN freqs |-> IF s \in {only, other} THEN 1 ELSE 0]
        ELSE HuffmanDepths(nodes, zero)

RECURSIVE Pow2(_)
Pow2(n) == IF n = 0 THEN 1 ELSE 2 * Pow2(n - 1)

RECURSIVE ReverseBits(_, _)
\* bit_reverse: the low n bits of v in reverse order.
ReverseBits(v, n) ==
    IF n = 0 THEN 0 ELSE (v % 2) * Pow2(n - 1) + ReverseBits(v \div 2, n - 1)

RECURSIVE NextCode(_, _)
\* The first canonical code of length bits: the codes of each shorter length
\* come first.
NextCode(lengths, bits) ==
    IF bits <= 1 THEN 0
    ELSE 2 * (NextCode(lengths, bits - 1)
              + Cardinality({s \in DOMAIN lengths : lengths[s] = bits - 1}))

\* huffman_table::create_codes: the canonical code of every used symbol, stored
\* bit-reversed, as the pair the writer is handed: <<code, length>>.
create_codes(lengths) ==
    [s \in DOMAIN lengths |->
        IF lengths[s] = 0 THEN <<0, 0>>
        ELSE <<ReverseBits(NextCode(lengths, lengths[s])
                             + Cardinality({t \in DOMAIN lengths :
                                               t < s /\ lengths[t] = lengths[s]}),
                           lengths[s]),
               lengths[s]>>]

\* The TODO of lines 39-40 carried out: one run encoding over both vectors.
encoded_chain_joint(ll, d) == encode_lengths(ll \o d)[1]

\* Lines 33-34 and 69: both vectors encoded on their own, then chained.
encoded_chain(ll, d) == encode_lengths(ll)[1] \o encode_lengths(d)[1]

\* Lines 41-44: the frequencies of both encodings added up.
merged_freqs(ll, d) ==
    [s \in MetaSymbols |-> encode_lengths(ll)[2][s] + encode_lengths(d)[2][s]]

\* Lines 23-54: the three counts, written as soon as each is known.
HeaderCounts ==
    /\ hpc = "call"
    /\ LET lengths == huffman_lengths_from_frequency(
                          merged_freqs(literal_len_lengths, distance_lenghts),
                          MAX_HUFFMAN_CODE_LENGTH)
           n_hlit == Len(literal_len_lengths) - MIN_LITERAL_LENGTHS
           n_hdist == Len(distance_lenghts) - 1
           n_hclen == Cardinality(DOMAIN lengths) - 4
       IN  /\ hlit' = n_hlit
           /\ hdist' = n_hdist
           /\ encoded' = encoded_chain(literal_len_lengths, distance_lenghts)
           /\ huffman_table_lengths' = lengths
           /\ hclen' = n_hclen
           /\ writer' = writer \o <<<<n_hlit, HLIT_BITS>>, <<n_hdist, HDIST_BITS>>,
                                    <<n_hclen, HCLEN_BITS>>>>
           /\ stdout' = Append(stdout, <<"hclen: ", n_hclen>>)
    /\ idx' = 0
    /\ hpc' = "meta"
    /\ UNCHANGED <<matchVars, zlibVars, headerArgs>>

\* Lines 58-63: one pass of the loop over HUFFMAN_LENGTH_ORDER.
HeaderMetaLength ==
    /\ hpc = "meta"
    /\ LET n == HUFFMAN_LENGTH_ORDER[idx + 1] IN
       /\ writer' = Append(writer, <<huffman_table_lengths[n], 3>>)
       /\ stdout' = Append(stdout, <<"writing length ", n, huffman_table_lengths[n]>>)
    /\ IF idx + 1 < Len(HUFFMAN_LENGTH_ORDER)
       THEN idx' = idx + 1 /\ hpc' = "meta"
       ELSE idx' = 0 /\ hpc' = "codes"
    /\ UNCHANGED <<matchVars, zlibVars, headerArgs, headerLocals>>

\* Lines 65-102: one pass of the loop over the encoded lengths.
HeaderCode ==
    /\ hpc = "codes"
    /\ LET codes == create_codes(huffman_table_lengths)
           v == encoded[idx + 1]
           code == codes[SymbolOf(v)]
       IN  IF v[1] = "Length"
           THEN /\ writer' = Append(writer, code)
                /\ stdout' = Append(stdout, <<"Writing code n: ", v[2], code>>)
           ELSE IF v[1] = "CopyPrevious"
           THEN /\ writer' = writer \o <<code, <<v[2] - 3, 2>>>>
                /\ stdout' = Append(stdout, <<"Writing copyPrevious", v[2], code>>)
           ELSE IF v[1] = "RepeatZero3Bits"
           THEN /\ writer' = writer \o <<code, <<v[2] - 3, 3>>>>
                /\ UNCHANGED stdout
           ELSE /\ writer' = writer \o <<code, <<v[2] - 11, 7>>>>
                /\ UNCHANGED stdout
    /\ IF idx + 1 < Len(encoded)
       THEN idx' = idx + 1 /\ hpc' = "codes"
       ELSE idx' = 0 /\ hpc' = "done"
    /\ UNCHANGED <<matchVars, zlibVars, headerArgs, headerLocals>>

\* ------------------------------------------------- zlib.rs and checksum.rs

\* zlib::CompressionLevel as the two FLEVEL bits of the header.
FLevel(level) ==
    CASE level = "Fastest" -> 0
      [] level = "Fast" -> 1
      [] level = "Default" -> 2
      [] level = "Best" -> 3

\* zlib::write_zlib_header: CMF = 0x78 (deflate, 32K window), then FLG with
\* the level in its two high bits, no preset dictionary, and the check bits
\* that make the 16-bit header a multiple of 31.
write_zlib_header(w, level) ==
    LET cmf == 120
        flg == FLevel(level) * 64
        rem == (cmf * 256 + flg) % 31
    IN  w \o <<cmf, flg + (IF rem = 0 THEN 0 ELSE 31 - rem)>>

\* checksum::NoChecksum::new() and checksum::Adler32Checksum::new().
NoChecksum == <<"NoChecksum", 0, 0>>

Adler32Checksum == <<"Adler32", 1, 0>>

RECURSIVE update_from_slice(_, _)
\* RollingChecksum::update_from_slice: s1 += b, s2 += s1, both mod 65521;
\* nothing for NoChecksum.
update_from_slice(c, bytes) ==
    IF c[1] = "NoChecksum" \/ bytes = <<>> THEN c
    ELSE LET s1 == (c[2] + Head(bytes)) % 65521 IN
         update_from_slice(<<c[1], s1, (c[3] + s1) % 65521>>, Tail(bytes))

\* RollingChecksum::current_hash: (s2 << 16) | s1.
current_hash(c) == c[3] * 65536 + c[2]

\* write_u32::<LittleEndian>: the least significant byte first.
write_u32_LittleEndian(h) ==
    <<h % 256, (h \div 256) % 256, (h \div 65536) % 256, h \div 16777216>>

\* write_u32::<BigEndian>: the most significant byte first.
write_u32_BigEndian(h) ==
    <<h \div 16777216, (h \div 65536) % 256, (h \div 256) % 256, h % 256>>

\* ------------------------------------------- the format's tables (RFC 1951)

\* The base length and the number of extra bits of length codes 257..285.
LengthBase ==
    <<3, 4, 5, 6, 7, 8, 9, 10, 11, 13, 15, 17, 19, 23, 27, 31, 35, 43, 51, 59,
      67, 83, 99, 115, 131, 163, 195, 227, 258>>

LengthExtra ==
    <<0, 0, 0, 0, 0, 0, 0, 0, 1, 1, 1, 1, 2, 2, 2, 2, 3, 3, 3, 3,
      4, 4, 4, 4, 5, 5, 5, 5, 0>>

\* The base distance and the number of extra bits of distance codes 0..29.
DistanceBase ==
    <<1, 2, 3, 4, 5, 7, 9, 13, 17, 25, 33, 49, 65, 97, 129, 193, 257, 385, 513,
      769, 1025, 1537, 2049, 3073, 4097, 6145, 8193, 12289, 16385, 24577>>

DistanceExtra ==
    <<0, 0, 0, 0, 1, 1, 2, 2, 3, 3, 4, 4, 5, 5, 6, 6, 7, 7, 8, 8,
      9, 9, 10, 10, 11, 11, 12, 12, 13, 13>>

\* The entry of a base table that covers v.
CodeIndex(base, v) ==
    CHOOSE k \in 1..Len(base) : base[k] <= v /\ (k = Len(base) \/ v < base[k + 1])

\* The code lengths of a fixed block.
FixedLiteralLengths ==
    [s \in 0..287 |-> IF s <= 143 THEN 8 ELSE IF s <= 255 THEN 9
                      ELSE IF s <= 279 THEN 7 ELSE 8]

FixedDistanceLengths == [s \in 0..29 |-> 5]

\* ------------------------------------------------------- the compressor

\* The three bytes at q, which the hash is taken of: equal triples share a
\* bucket.
Triple(d, q) == <<At(d, q), At(d, q + 1), At(d, q + 2)>>

\* ChainedHashTable::add on the pair <<head, prev>>: the slot of q takes the
\* bucket's last position, the bucket's head becomes q.
add(t, d, q) ==
    LET h == Triple(d, q) IN
    <<[t[1] EXCEPT ![h] = q], [t[2] EXCEPT ![q % WINDOW_SIZE] = t[1][h]]>>

RECURSIVE add_range(_, _, _, _)
\* The positions from..to added, each only if three bytes are ahead of it.
add_range(t, d, from, to) ==
    IF from > to THEN t
    ELSE add_range(IF from + 3 <= Len(d) THEN add(t, d, from) ELSE t, d, from + 1, to)

\* The literal/length symbol a buffered symbol is sent with.
LitLenSymbol(s) ==
    IF s[1] = "Lit" THEN s[2] ELSE 256 + CodeIndex(LengthBase, s[2])

\* The distance symbol of a buffered match.
DistanceSymbol(s) == CodeIndex(DistanceBase, s[3]) - 1

\* The two histograms of the block buffer; end-of-block is counted once.
literal_frequencies(syms) ==
    [s \in 0..285 |->
        (IF s = 256 THEN 1 ELSE 0)
        + Cardinality({i \in 1..Len(syms) : LitLenSymbol(syms[i]) = s})]

distance_frequencies(syms) ==
    [s \in 0..29 |->
        Cardinality({i \in 1..Len(syms) :
                        syms[i][1] = "Match" /\ DistanceSymbol(syms[i]) = s})]

\* A length vector cut after its last used symbol, but not below least
\* entries, as the sequence the header writer takes.
Trimmed(lengths, least) ==
    LET used == {s \in DOMAIN lengths : lengths[s] > 0}
        n == Max(least, 1 + (CHOOSE m \in used \cup {0} : \A x \in used : x <= m))
    IN  [i \in 1..n |-> lengths[i - 1]]

\* A length sequence as a function of the symbol.
BySymbol(l) == [s \in 0..(Len(l) - 1) |-> l[s + 1]]

\* The extra bits of a length or distance, if it has any.
ExtraBits(v, n) == IF n = 0 THEN <<>> ELSE <<<<v, n>>>>

\* The writes of one buffered symbol under the codes lc and dc.
SymbolWrites(s, lc, dc) ==
    IF s[1] = "Lit" THEN <<lc[s[2]]>>
    ELSE LET lk == CodeIndex(LengthBase, s[2])
             dk == CodeIndex(DistanceBase, s[3])
         IN  <<lc[256 + lk]>> \o ExtraBits(s[2] - LengthBase[lk], LengthExtra[lk])
             \o <<dc[dk - 1]>> \o ExtraBits(s[3] - DistanceBase[dk], DistanceExtra[dk])

RECURSIVE BlockWrites(_, _, _)
\* The writes of the block's symbols and of end-of-block after them.
BlockWrites(syms, lc, dc) ==
    IF syms = <<>> THEN <<lc[256]>>
    ELSE SymbolWrites(Head(syms), lc, dc) \o BlockWrites(Tail(syms), lc, dc)

RECURSIVE BitsOfWrites(_, _, _)
\* The bits of the writes lo..hi in the order they are sent: each value from
\* its bit 0 up.
BitsOfWrites(w, lo, hi) ==
    IF lo > hi THEN <<>>
    ELSE IF lo = hi THEN [i \in 1..w[lo][2] |-> (w[lo][1] \div Pow2(i - 1)) % 2]
    ELSE LET mid == (lo + hi) \div 2 IN
         BitsOfWrites(w, lo, mid) \o BitsOfWrites(w, mid + 1, hi)

\* Bit k of b, 0 past its end (flush_byte pads with zero bits).
BitAt(b, k) == IF k <= Len(b) THEN b[k] ELSE 0

\* The bytes the bit writer emits: the first bit sent is bit 0 of the first byte.
BytesOfBits(b) ==
    [j \in 1..((Len(b) + 7) \div 8) |->
        BitAt(b, 8 * j - 7) + 2 * BitAt(b, 8 * j - 6) + 4 * BitAt(b, 8 * j - 5)
        + 8 * BitAt(b, 8 * j - 4) + 16 * BitAt(b, 8 * j - 3)
        + 32 * BitAt(b, 8 * j - 2) + 64 * BitAt(b, 8 * j - 1) + 128 * BitAt(b, 8 * j)]

\* The zero bits that bring the writer to a byte boundary.
Alignment(w) ==
    LET n == Len(BitsOfWrites(w, 1, Len(w))) % 8 IN
    IF n = 0 THEN <<>> ELSE <<<<0, 8 - n>>>>

\* ------------------------------------------------------------------ lib.rs

\* Lines 108-113: deflate_bytes_conf makes the vector and hands
\* compress_data_dynamic a NoChecksum.
DeflateBytesConf ==
    /\ zpc = "call" /\ ~wrapped
    /\ sink' = <<>>
    /\ checksum' = NoChecksum
    /\ zpc' = "compress"
    /\ UNCHANGED <<matchVars, headerVars, input, options, wrapped, compressVars>>

\* Lines 149-156: deflate_bytes_zlib_conf writes the header, always for
\* CompressionLevel::Default, and makes an Adler32Checksum.
DeflateBytesZlibConf ==
    /\ zpc = "call" /\ wrapped
    /\ sink' = write_zlib_header(<<>>, "Default")
    /\ checksum' = Adler32Checksum
    /\ zpc' = "compress"
    /\ UNCHANGED <<matchVars, headerVars, input, options, wrapped, compressVars>>

\* Lines 88-93: compress_data_dynamic updates the checksum from the whole
\* input, makes the DeflateState and calls compress_data_dynamic_n.
CompressDataDynamic ==
    /\ zpc = "compress"
    /\ checksum' = update_from_slice(checksum, input)
    /\ data' = input
    /\ heads' = [h \in [1..3 -> ByteSet] |-> 0]
    /\ hash_table' = [s \in 0..(WINDOW_SIZE - 1) |-> 0]
    /\ lz_position' = 0
    /\ lz_prev' = <<2, 0>>
    /\ symbols' = <<>>
    /\ writer' = <<>>
    /\ zpc' = "lz77"
    /\ UNCHANGED <<position, prev_length, max_hash_checks, matchLocals, pc, examined,
                   ret, headerArgs, headerLocals, stdout, hpc, idx,
                   input, options, wrapped, sink, btype>>

\* The LZ77 driver at a position: the position is added to the hash table if
\* three bytes are ahead of it, and longest_match is called with the length of
\* the held match; the budget of checks is the configured one, or any smaller
\* one while a match is held.
Lz77Step ==
    /\ zpc = "lz77" /\ pc = "idle"
    /\ lz_position < Len(input)
    /\ LET t == add_range(<<heads, hash_table>>, data, lz_position, lz_position) IN
       /\ heads' = t[1]
       /\ hash_table' = t[2]
    /\ position' = lz_position
    /\ prev_length' = lz_prev[1]
    /\ max_hash_checks' \in {b \in 1..options.max_hash_checks :
                                lz_prev[1] < 3 => b = options.max_hash_checks}
    /\ examined' = <<>>
    /\ pc' = "call"
    /\ UNCHANGED <<data, matchLocals, ret, headerVars, entryVars,
                   lz_position, lz_prev, symbols, btype>>

\* The driver's decision once longest_match has returned.
Lz77Decide ==
    /\ zpc = "lz77" /\ pc = "done"
    /\ LET p == lz_position
           held == lz_prev[1] >= 3
           passed == IF held THEN <<<<"Lit", At(data, p - 1)>>>> ELSE <<>>
       IN  IF held /\ lz_prev[1] >= ret[1]
           THEN \* the held match, which began at p - 1, is emitted
                LET t == add_range(<<heads, hash_table>>, data, p + 1, p + lz_prev[1] - 2) IN
                /\ symbols' = Append(symbols, <<"Match", lz_prev[1], lz_prev[2]>>)
                /\ lz_position' = p + lz_prev[1] - 1
                /\ lz_prev' = <<2, 0>>
                /\ heads' = t[1]
                /\ hash_table' = t[2]
           ELSE IF ret[1] >= 3 /\ options.matching_type = "Lazy"
                   /\ ret[1] <= options.lazy_threshold
           THEN \* the match is held; the byte a held match began at is a literal
                /\ symbols' = symbols \o passed
                /\ lz_position' = p + 1
                /\ lz_prev' = ret
                /\ UNCHANGED <<heads, hash_table>>
           ELSE IF ret[1] >= 3
           THEN \* the match is emitted at once
                LET t == add_range(<<heads, hash_table>>, data, p + 1, p + ret[1] - 1) IN
                /\ symbols' = Append(symbols \o passed, <<"Match", ret[1], ret[2]>>)
                /\ lz_position' = p + ret[1]
                /\ lz_prev' = <<2, 0>>
                /\ heads' = t[1]
                /\ hash_table' = t[2]
           ELSE /\ symbols' = Append(symbols, <<"Lit", At(data, p)>>)
                /\ lz_position' = p + 1
                /\ lz_prev' = <<2, 0>>
                /\ UNCHANGED <<heads, hash_table>>
    /\ pc' = "idle"
    /\ UNCHANGED <<data, position, prev_length, max_hash_checks, matchLocals,
                   examined, ret, headerVars, entryVars, btype>>

\* The end of the input: a match still held is emitted, and the block is
\* closed.
Lz77End ==
    /\ zpc = "lz77" /\ pc = "idle"
    /\ lz_position >= Len(input)
    /\ symbols' = IF lz_prev[1] >= 3
                  THEN Append(symbols, <<"Match", lz_prev[1], lz_prev[2]>>)
                  ELSE symbols
    /\ lz_prev' = <<2, 0>>
    /\ zpc' = "block"
    /\ UNCHANGED <<matchVars, headerVars, input, options, wrapped, sink, checksum,
                   lz_position, heads, btype>>

\* A stored block: BFINAL, BTYPE = 00, the alignment, LEN, NLEN and the bytes.
WriteStoredBlock ==
    /\ zpc = "block"
    /\ btype' = "stored"
    /\ LET start == writer \o <<<<1, 1>>, <<0, 2>>>> IN
       writer' = start \o Alignment(start)
                    \o <<<<Len(input), 16>>, <<65535 - Len(input), 16>>>>
                    \o [i \in 1..Len(input) |-> <<input[i], 8>>]
    /\ zpc' = "flush"
    /\ UNCHANGED <<matchVars, headerArgs, headerLocals, stdout, hpc, idx,
                   input, options, wrapped, sink, checksum,
                   lz_position, lz_prev, heads, symbols>>

\* A fixed block: BFINAL and BTYPE = 01; the codes are the pre-defined ones.
WriteFixedBlock ==
    /\ zpc = "block"
    /\ btype' = "fixed"
    /\ writer' = writer \o <<<<1, 1>>, <<1, 2>>>>
    /\ zpc' = "data"
    /\ UNCHANGED <<matchVars, headerArgs, headerLocals, stdout, hpc, idx,
                   input, options, wrapped, sink, checksum,
                   lz_position, lz_prev, heads, symbols>>

\* A dynamic block, for a block with a match in it: BFINAL and BTYPE = 10, the
\* code lengths built from the two histograms and cut after their last used
\* symbol, and the call of write_huffman_lengths.
WriteDynamicBlock ==
    /\ zpc = "block"
    /\ \E i \in 1..Len(symbols) : symbols[i][1] = "Match"
    /\ btype' = "dynamic"
    /\ writer' = writer \o <<<<1, 1>>, <<2, 2>>>>
    /\ literal_len_lengths' =
          Trimmed(huffman_lengths_from_frequency(literal_frequencies(symbols), 15),
                  MIN_LITERAL_LENGTHS)
    /\ distance_lenghts' =
          Trimmed(huffman_lengths_from_frequency(distance_frequencies(symbols), 15), 1)
    /\ hpc' = "call"
    /\ zpc' = "data"
    /\ UNCHANGED <<matchVars, headerLocals, stdout, idx,
                   input, options, wrapped, sink, checksum,
                   lz_position, lz_prev, heads, symbols>>

\* The symbols of the block and end-of-block, under the block's codes; for a
\* dynamic block once write_huffman_lengths has returned.
WriteBlockData ==
    /\ zpc = "data"
    /\ btype = "dynamic" => hpc = "done"
    /\ writer' = writer \o
          (IF btype = "fixed"
           THEN BlockWrites(symbols, create_codes(FixedLiteralLengths),
                            create_codes(FixedDistanceLengths))
           ELSE BlockWrites(symbols, create_codes(BySymbol(literal_len_lengths)),
                            create_codes(BySymbol(distance_lenghts))))
    /\ zpc' = "flush"
    /\ UNCHANGED <<matchVars, headerArgs, headerLocals, stdout, hpc, idx,
                   input, options, wrapped, sink, checksum, compressVars>>

\* Flush::Finish: the last byte is padded and everything written goes to the
\* sink.
FinishStream ==
    /\ zpc = "flush"
    /\ sink' = sink \o BytesOfBits(BitsOfWrites(writer, 1, Len(writer)))
    /\ zpc' = "compressed"
    /\ UNCHANGED <<matchVars, headerVars, input, options, wrapped, checksum,
                   compressVars>>

\* Line 115: deflate_bytes_conf returns the vector.
DeflateBytesReturn ==
    /\ zpc = "compressed" /\ ~wrapped
    /\ zpc' = "done"
    /\ UNCHANGED <<matchVars, headerVars, input, options, wrapped, sink, checksum,
                   compressVars>>

\* Lines 160-163: deflate_bytes_zlib_conf appends the checksum, big-endian,
\* and returns the vector.
ZlibTrailer ==
    /\ zpc = "compressed" /\ wrapped
    /\ sink' = sink \o write_u32_BigEndian(current_hash(checksum))
    /\ zpc' = "done"
    /\ UNCHANGED <<matchVars, headerVars, input, options, wrapped, checksum,
                   compressVars>>

\* ------------------------------------------------- claims on longest_match

RECURSIVE ChainFrom(_, _, _, _)
\* The candidates the walk may examine: the chain entries reached from
\* get_prev(from), as long as each is below the one before it and not below
\* lim, at most n of them.
ChainFrom(table, from, lim, n) ==
    LET c == get_prev(table, from) IN
    IF n = 0 \/ c >= from \/ c < lim THEN <<>>
    ELSE <<c>> \o ChainFrom(table, c, lim, n - 1)

WindowLimit(pos) == Max(0, pos - WINDOW_SIZE)

Candidates == ChainFrom(hash_table, position, WindowLimit(position), max_hash_checks)

CandidateSet == {Candidates[i] : i \in 1..Len(Candidates)}

\* The length cap at the position.
Cap == Min(Len(data) - position, MAX_MATCH)

\* The number of leading bytes data[position..] and data[q..] share, up to Cap.
CommonPrefix(q) ==
    CHOOSE k \in 0..Cap :
        /\ \A i \in 0..(k - 1) : q + i < Len(data) /\ At(data, position + i) = At(data, q + i)
        /\ k < Cap => (q + k >= Len(data) \/ At(data, position + k) # At(data, q + k))

SetMax(S) == CHOOSE m \in S : \A x \in S : x <= m

BestPrefix == SetMax({CommonPrefix(c) : c \in CandidateSet} \cup {0})

Returned == pc = "done"

\* C6: when some candidate the walk may examine shares more than prev_length
\* leading bytes with the position, the returned length is the greatest such
\* common-prefix length (capped at min(|data| - position, MAX_MATCH)).
C6_LongestMatchWins ==
    (Returned /\ position >= 1 /\ BestPrefix > prev_length) => ret[1] = BestPrefix

\* The call has ended: it returned, or it panicked on an index.
Ended == pc \in {"done", "panic"}

\* C7: every call returns; it returns (2, 0) when nothing better than
\* prev_length can be found and a length above prev_length in every other
\* case; distance 0 comes only with length 2.
C7_NoMatchSignal ==
    Ended =>
        /\ Returned
        /\ IF position = 0 \/ prev_length >= MAX_MATCH \/ Candidates = <<>>
              \/ BestPrefix <= prev_length
           THEN ret = <<2, 0>>
           ELSE ret[1] > prev_length
        /\ (ret[2] = 0 => ret[1] = 2)

\* The candidates whose common prefix is the best one.
Ties == {c \in CandidateSet : CommonPrefix(c) = BestPrefix}

\* C8: of several candidates giving the same best length, the nearest one
\* (smallest distance) is returned.
C8_TieBreakNearest ==
    (Returned /\ position >= 1 /\ BestPrefix > prev_length /\ Cardinality(Ties) >= 2)
        => ret[2] = position - SetMax(Ties)

\* C9: a returned match of length >= 3 is a valid back-reference inside the
\* window, and get_match_length never exceeds MAX_MATCH or either remainder.
C9_ValidBackReference ==
    /\ (Returned /\ ret[1] >= 3) =>
          /\ 1 <= ret[2] /\ ret[2] <= Min(position, WINDOW_SIZE)
          /\ ret[1] <= Min(MAX_MATCH, Len(data) - position)
          /\ \A i \in 0..(ret[1] - 1) :
                At(data, position - ret[2] + i) = At(data, position + i)
    /\ pc = "length_done" =>
          ret[1] <= Min(MAX_MATCH, Min(Len(data) - position, Len(data) - current_head))

\* A match of length >= 3 found beyond the first window, at the window's edge.
C9_Witness ==
    /\ Returned /\ ret[1] >= 3
    /\ position > WINDOW_SIZE /\ ret[2] = WINDOW_SIZE

\* The statements of C6-C8 restricted to calls whose prev_length is at least
\* 1, where the pre-filter reads only bytes of the match itself.
C6_FromOne == prev_length >= 1 => C6_LongestMatchWins
C7_FromOne == prev_length >= 1 => C7_NoMatchSignal
C8_FromOne == prev_length >= 1 => C8_TieBreakNearest

\* The last position the walk examined; the position itself before the first.
LastExamined == IF examined = <<>> THEN position ELSE examined[Len(examined)]

\* What the walk has examined so far: at most max_hash_checks candidates, each
\* inside the window and below the one before it, the first below the position.
WalkBounded ==
    /\ Len(examined) <= max_hash_checks
    /\ \A i \in 1..Len(examined) :
          /\ examined[i] >= WindowLimit(position)
          /\ examined[i] < (IF i = 1 THEN position ELSE examined[i - 1])
    /\ pc = "loop" => (Len(examined) = iters /\ current_head < LastExamined)

\* One step of the walk: only the loop examines, and it examines the chain
\* entry of the last position examined; a pass that stays in the loop moves to
\* a lower position and counts one more check; the walk leaves the loop when
\* the chain entry is below the window limit or the checks are used up, and
\* after a pass whose next chain entry is not below the position examined.
WalkStep ==
    /\ examined' # examined =>
          /\ pc = "loop" /\ current_head >= limit /\ iters < max_hash_checks
          /\ current_head = get_prev(hash_table, LastExamined)
          /\ examined' = Append(examined, current_head)
    /\ (pc = "loop" /\ pc' = "loop") =>
          /\ current_head' < current_head
          /\ iters' = iters + 1
    /\ (pc = "loop" /\ (current_head < limit \/ iters >= max_hash_checks)) =>
          (pc' = "exit" /\ examined' = examined)
    /\ (pc = "loop" /\ get_prev(hash_table, current_head) >= current_head) =>
          pc' \in {"exit", "panic"}

\* C11: for every content of the hash table the walk examines at most
\* max_hash_checks candidates, in strictly decreasing order of position, and
\* it stops at the first chain entry that is not below the position examined
\* before it or that is below the window limit max(0, position - WINDOW_SIZE).
C11_WalkTerminates == []WalkBounded /\ [][WalkStep]_vars

\* A walk over a cyclic chain: two candidates were examined and the chain
\* entry of the last one points back up to the first; the walk ended there
\* with checks to spare.
C11_Witness ==
    /\ Returned
    /\ Len(examined) = 2 /\ Len(examined) < max_hash_checks
    /\ prev_head = examined[2]
    /\ current_head = examined[1]
    /\ get_prev(hash_table, examined[2]) = examined[1]

\* A call ended in a panic: an index of the pre-filter was out of bounds.
Panicked == pc = "panic"

\* C12: longest_match never reads outside data and never underflows an index:
\* at every pass of the loop both slices of the pre-filter are in bounds, for
\* every data, position, prev_length in 0..MAX_MATCH and table, the passes
\* whose candidate is position 0 included.
C12_SlicesInBounds ==
    /\ ~Panicked
    /\ (pc = "loop" /\ current_head >= limit /\ iters < max_hash_checks) =>
          /\ SliceOk(data, position + best_length - 1, position + best_length + 1)
          /\ SliceOk(data, current_head + best_length - 1,
                     current_head + best_length + 1)

\* The statement of C12 restricted to calls whose prev_length is at least 1.
C12_FromOne == prev_length >= 1 => C12_SlicesInBounds


\* ----------------------------------------- claims on write_huffman_lengths

\* C5: write_huffman_lengths writes to the bit writer only: nothing is ever
\* printed on standard output.
C5_NothingOnStdout == stdout = <<>>

\* The lengths of the code-length codes as a decoder reads them back: the
\* n_meta 3-bit values after the three counts, in HUFFMAN_LENGTH_ORDER, and 0
\* for the symbols past them.
MetaLengthsRead(w, n_meta) ==
    [s \in MetaSymbols |->
        IF \E j \in 1..n_meta : HUFFMAN_LENGTH_ORDER[j] = s
        THEN w[3 + (CHOOSE j \in 1..n_meta : HUFFMAN_LENGTH_ORDER[j] = s)][1]
        ELSE 0]

RECURSIVE DecodeLengths(_, _, _)
\* A decoder of the code length sequence: recs are the writes left, ml the
\* lengths of the code-length codes, out the lengths decoded so far. <<-1>>
\* when a write is no code of ml, a run symbol lacks its extra bits, or
\* CopyPrevious has nothing before it.
DecodeLengths(recs, ml, out) ==
    IF recs = <<>> THEN out
    ELSE LET codes == create_codes(ml)
             syms == {s \in MetaSymbols : ml[s] > 0 /\ codes[s] = recs[1]}
         IN  IF syms = {} THEN <<-1>>
             ELSE LET s == CHOOSE x \in syms : TRUE IN
                  IF s < COPY_PREVIOUS
                  THEN DecodeLengths(Tail(recs), ml, Append(out, s))
                  ELSE IF Len(recs) < 2 THEN <<-1>>
                  ELSE LET extra == recs[2]
                           rest == Tail(Tail(recs))
                       IN  IF s = COPY_PREVIOUS
                           THEN IF out = <<>> \/ extra[2] # 2 THEN <<-1>>
                                ELSE DecodeLengths(rest, ml,
                                         out \o Rep(out[Len(out)], extra[1] + 3))
                           ELSE IF s = REPEAT_ZERO_3_BITS
                           THEN IF extra[2] # 3 THEN <<-1>>
                                ELSE DecodeLengths(rest, ml, out \o Rep(0, extra[1] + 3))
                           ELSE IF extra[2] # 7 THEN <<-1>>
                                ELSE DecodeLengths(rest, ml, out \o Rep(0, extra[1] + 11))

\* The writes after the three counts and the n_meta code-length code lengths.
AfterMeta(w, n_meta) == SubSeq(w, 3 + n_meta + 1, Len(w))

\* C10: the header is HLIT (5 bits), HDIST (5 bits), HCLEN (4 bits), then
\* exactly HCLEN + 4 lengths of 3 bits each in the fixed permutation, then the
\* literal/length lengths and after them the distance lengths, each encoded
\* on its own; the loop over the permutation writes HCLEN + 4 lengths.
C10_HeaderLayout ==
    /\ hpc \in {"meta", "codes", "done"} =>
          /\ Len(writer) >= 3
          /\ writer[1] = <<Len(literal_len_lengths) - 257, 5>>
          /\ writer[2] = <<Len(distance_lenghts) - 1, 5>>
          /\ writer[3][2] = 4
    /\ (hpc = "codes" /\ idx = 0) => Len(writer) = 3 + (writer[3][1] + 4)
    /\ hpc = "done" =>
          LET n_meta == writer[3][1] + 4
              ml == MetaLengthsRead(writer, n_meta)
              rest == AfterMeta(writer, n_meta)
          IN  /\ n_meta <= Len(HUFFMAN_LENGTH_ORDER)
              /\ Len(writer) >= 3 + n_meta
              /\ \A j \in 1..n_meta :
                    writer[3 + j] = <<huffman_table_lengths[HUFFMAN_LENGTH_ORDER[j]], 3>>
              /\ \E k \in 0..Len(rest) :
                    /\ DecodeLengths(SubSeq(rest, 1, k), ml, <<>>) = literal_len_lengths
                    /\ DecodeLengths(SubSeq(rest, k + 1, Len(rest)), ml, <<>>)
                          = distance_lenghts

\* A finished header whose literal/length lengths end with the length the
\* distance lengths start with, in a run long enough to be sent as a repeat.
C10_Witness ==
    /\ hpc = "done"
    /\ Len(literal_len_lengths) > 257
    /\ encoded # encoded_chain_joint(literal_len_lengths, distance_lenghts)
    /\ \E i \in 1..Len(encoded) : encoded[i][1] = "CopyPrevious"
    /\ \E i \in 1..Len(encoded) : encoded[i][1] = "RepeatZero3Bits"

\* ------------------------------------ a decoder of the format (RFC 1951)

\* The bits of a byte string, bit 0 of each byte first.
BitsOfBytes(bytes) ==
    [i \in 1..(8 * Len(bytes)) |-> (bytes[((i - 1) \div 8) + 1] \div Pow2((i - 1) % 8)) % 2]

RECURSIVE ReadLsb(_, _, _)
\* The n bits after the first pos bits as a number, least significant first.
ReadLsb(bits, pos, n) ==
    IF n = 0 THEN 0 ELSE bits[pos + 1] + 2 * ReadLsb(bits, pos + 1, n - 1)

RECURSIVE ReadMsb(_, _, _)
\* The n bits after the first pos bits as a Huffman code, most significant first.
ReadMsb(bits, pos, n) ==
    IF n = 0 THEN 0 ELSE 2 * ReadMsb(bits, pos, n - 1) + bits[pos + n]

\* The order the lengths of the code-length codes arrive in (RFC 1951, 3.2.7).
CodeLengthOrder == <<16, 17, 18, 0, 8, 7, 9, 6, 10, 5, 11, 4, 12, 3, 13, 2, 14, 1, 15>>

\* The number of codes of each length 1..15.
CodeCounts(lengths) ==
    [L \in 1..15 |-> Cardinality({s \in DOMAIN lengths : lengths[s] = L})]

RECURSIVE KraftSum(_, _)
\* The share of the code space of 15 bits that the codes of length L..15 take.
KraftSum(counts, L) ==
    IF L > 15 THEN 0 ELSE counts[L] * Pow2(15 - L) + KraftSum(counts, L + 1)

\* A decoder takes a set of lengths that fills the code space, and a set with
\* no code at all or with a single code of one bit; it rejects every other.
CompleteCode(lengths) == KraftSum(CodeCounts(lengths), 1) = Pow2(15)

UsableCode(lengths) ==
    \/ CompleteCode(lengths)
    \/ /\ \A s \in DOMAIN lengths : lengths[s] <= 1
       /\ Cardinality({s \in DOMAIN lengths : lengths[s] = 1}) <= 1

RECURSIVE FirstCode(_, _)
\* The first code of length L (RFC 1951, 3.2.2, step 2).
FirstCode(counts, L) ==
    IF L = 1 THEN 0 ELSE 2 * (FirstCode(counts, L - 1) + counts[L - 1])

\* The symbols in increasing order.
SymbolsOf(lengths) == [i \in 1..Cardinality(DOMAIN lengths) |-> i - 1]

\* The decoding table of a set of lengths: for each length its first code and
\* its symbols in increasing order.
DecodingTable(lengths) ==
    LET counts == CodeCounts(lengths)
        row(L) == <<FirstCode(counts, L),
                    SelectSeq(SymbolsOf(lengths), LAMBDA s : lengths[s] = L)>>
    IN  <<row(1), row(2), row(3), row(4), row(5), row(6), row(7), row(8),
          row(9), row(10), row(11), row(12), row(13), row(14), row(15)>>

RECURSIVE DecodeSymbol(_, _, _, _)
\* The symbol whose code starts after the first pos bits, and the position
\* after it; <<-1, pos>> when the bits are no code of the table.
DecodeSymbol(bits, pos, table, L) ==
    IF L > 15 \/ pos + L > Len(bits) THEN <<-1, pos>>
    ELSE LET r == ReadMsb(bits, pos, L) - table[L][1] IN
         IF r >= 0 /\ r < Len(table[L][2]) THEN <<table[L][2][r + 1], pos + L>>
         ELSE DecodeSymbol(bits, pos, table, L + 1)

\* What the decoder is left with when the stream is not a valid one.
Invalid == [ok |-> FALSE, pos |-> 0, out |-> <<>>]

RECURSIVE CopyBack(_, _, _)
\* len bytes copied from dist bytes back, one at a time.
CopyBack(out, dist, len) ==
    IF len = 0 THEN out
    ELSE CopyBack(Append(out, out[Len(out) - dist + 1]), dist, len - 1)

RECURSIVE InflateSymbols(_, _, _, _, _)
\* The symbols of a compressed block up to end-of-block.
InflateSymbols(bits, pos, lt, dt, out) ==
    LET l == DecodeSymbol(bits, pos, lt, 1) IN
    IF l[1] < 0 \/ l[1] > 285 THEN Invalid
    ELSE IF l[1] < 256 THEN InflateSymbols(bits, l[2], lt, dt, Append(out, l[1]))
    ELSE IF l[1] = 256 THEN [ok |-> TRUE, pos |-> l[2], out |-> out]
    ELSE LET lk == l[1] - 256
             lx == LengthExtra[lk]
         IN  IF l[2] + lx > Len(bits) THEN Invalid
             ELSE LET len == LengthBase[lk] + ReadLsb(bits, l[2], lx)
                      d == DecodeSymbol(bits, l[2] + lx, dt, 1)
                  IN  IF d[1] < 0 \/ d[1] > 29 THEN Invalid
                      ELSE LET dx == DistanceExtra[d[1] + 1] IN
                           IF d[2] + dx > Len(bits) THEN Invalid
                           ELSE LET dist == DistanceBase[d[1] + 1]
                                              + ReadLsb(bits, d[2], dx)
                                IN  IF dist > Len(out) THEN Invalid
                                    ELSE InflateSymbols(bits, d[2] + dx, lt, dt,
                                                        CopyBack(out, dist, len))

RECURSIVE ReadCodeLengths(_, _, _, _, _)
\* The n code lengths of a dynamic block's header; <<-1>> when they are not
\* valid.
ReadCodeLengths(bits, pos, mt, n, out) ==
    IF Len(out) = n THEN <<pos, out>>
    ELSE IF Len(out) > n THEN <<-1>>
    ELSE LET m == DecodeSymbol(bits, pos, mt, 1) IN
         IF m[1] < 0 THEN <<-1>>
         ELSE IF m[1] < 16 THEN ReadCodeLengths(bits, m[2], mt, n, Append(out, m[1]))
         ELSE LET x == IF m[1] = 16 THEN 2 ELSE IF m[1] = 17 THEN 3 ELSE 7
                  least == IF m[1] = 18 THEN 11 ELSE 3
              IN  IF m[2] + x > Len(bits) \/ (m[1] = 16 /\ out = <<>>) THEN <<-1>>
                  ELSE ReadCodeLengths(bits, m[2] + x, mt, n,
                           out \o [i \in 1..(least + ReadLsb(bits, m[2], x)) |->
                                      IF m[1] = 16 THEN out[Len(out)] ELSE 0])

\* A stored block after its three header bits.
InflateStored(bits, pos, out) ==
    LET at == 8 * ((pos + 7) \div 8) IN
    IF at + 32 > Len(bits) THEN Invalid
    ELSE LET n == ReadLsb(bits, at, 16) IN
         IF ReadLsb(bits, at + 16, 16) # 65535 - n \/ at + 32 + 8 * n > Len(bits)
         THEN Invalid
         ELSE [ok |-> TRUE, pos |-> at + 32 + 8 * n,
               out |-> out \o [i \in 1..n |-> ReadLsb(bits, at + 32 + 8 * (i - 1), 8)]]

\* A dynamic block after its three header bits.
InflateDynamic(bits, pos, out) ==
    IF pos + 14 > Len(bits) THEN Invalid
    ELSE LET nlit == ReadLsb(bits, pos, 5) + 257
             ndist == ReadLsb(bits, pos + 5, 5) + 1
             nmeta == ReadLsb(bits, pos + 10, 4) + 4
             body == pos + 14 + 3 * nmeta
         IN  IF nlit > 286 \/ ndist > 30 \/ body > Len(bits) THEN Invalid
             ELSE LET ml == [s \in 0..18 |->
                               IF \E j \in 1..nmeta : CodeLengthOrder[j] = s
                               THEN ReadLsb(bits, pos + 14 + 3 * ((CHOOSE j \in 1..nmeta :
                                                CodeLengthOrder[j] = s) - 1), 3)
                               ELSE 0]
                  IN  IF ~CompleteCode(ml) THEN Invalid
                      ELSE LET r == ReadCodeLengths(bits, body, DecodingTable(ml),
                                                    nlit + ndist, <<>>)
                           IN  IF r[1] < 0 THEN Invalid
                               ELSE LET ll == [s \in 0..(nlit - 1) |-> r[2][s + 1]]
                                        dl == [s \in 0..(ndist - 1) |-> r[2][nlit + s + 1]]
                                    IN  IF ll[256] = 0 \/ ~UsableCode(ll) \/ ~UsableCode(dl)
                                        THEN Invalid
                                        ELSE InflateSymbols(bits, r[1], DecodingTable(ll),
                                                            DecodingTable(dl), out)

RECURSIVE InflateBlocks(_, _, _)
\* The blocks of a stream up to and including the final one.
InflateBlocks(bits, pos, out) ==
    IF pos + 3 > Len(bits) THEN Invalid
    ELSE LET final == bits[pos + 1]
             type == ReadLsb(bits, pos + 1, 2)
             b == IF type = 0 THEN InflateStored(bits, pos + 3, out)
                  ELSE IF type = 1
                  THEN InflateSymbols(bits, pos + 3,
                                      DecodingTable([s \in 0..287 |->
                                          IF s <= 143 THEN 8 ELSE IF s <= 255 THEN 9
                                          ELSE IF s <= 279 THEN 7 ELSE 8]),
                                      DecodingTable([s \in 0..31 |-> 5]), out)
                  ELSE IF type = 2 THEN InflateDynamic(bits, pos + 3, out)
                  ELSE Invalid
         IN  IF ~b.ok \/ final = 1 THEN b ELSE InflateBlocks(bits, b.pos, b.out)

\* The decoder on a byte string: whether a complete stream starts it, the
\* number of bits of that stream, and the bytes it stands for.
Inflate(bytes) == InflateBlocks(BitsOfBytes(bytes), 0, <<>>)

RECURSIVE WeightedSum(_, _, _)
\* The bytes of x from i on added up, each taken once or, weighted, as often
\* as there are bytes from it to the end.
WeightedSum(x, i, weighted) ==
    IF i > Len(x) THEN 0
    ELSE (IF weighted THEN (Len(x) - i + 1) * x[i] ELSE x[i])
         + WeightedSum(x, i + 1, weighted)

\* The Adler-32 of x in network order: the sum of the first sum after each
\* byte, then 1 plus the bytes, both mod 65521 and each in two bytes, the high
\* one first.
Adler32Bytes(x) ==
    LET s1 == (1 + WeightedSum(x, 1, FALSE)) % 65521
        s2 == (Len(x) + WeightedSum(x, 1, TRUE)) % 65521
    IN  <<s2 \div 256, s2 % 256, s1 \div 256, s1 % 256>>

\* The bare stream inside a wrapped one: what lies between the two header
\* bytes and the four trailer bytes.
Body(bytes) == SubSeq(bytes, 3, Len(bytes) - 4)

\* A zlib decoder (RFC 1950): method 8 with a window of at most 32K, a header
\* that is a multiple of 31, no preset dictionary, then a complete stream of
\* whole bytes, then the Adler-32 of the decoded bytes in network order.
ZlibDecode(bytes) ==
    IF Len(bytes) < 6 \/ bytes[1] % 16 # 8 \/ bytes[1] \div 16 > 7
       \/ (bytes[1] * 256 + bytes[2]) % 31 # 0 \/ (bytes[2] \div 32) % 2 # 0
    THEN Invalid
    ELSE LET r == Inflate(Body(bytes)) IN
         IF r.ok /\ (r.pos + 7) \div 8 = Len(Body(bytes))
            /\ SubSeq(bytes, Len(bytes) - 3, Len(bytes)) = Adler32Bytes(r.out)
         THEN r ELSE Invalid

\* ------------------------------------------------- claims on the entry points

\* The entry point has returned its vector.
Finished == zpc = "done"

\* C1: a decoder applied to what deflate_bytes_conf returns, and a zlib
\* decoder applied to what deflate_bytes_zlib_conf returns, yields the input,
\* whatever the input and the configuration.
C1_RoundTrip ==
    Finished =>
        LET r == IF wrapped THEN ZlibDecode(sink) ELSE Inflate(sink) IN
        r.ok /\ r.out = input

\* A wrapped stream whose block is a dynamic one holding a literal and a match
\* of the greatest length, found under lazy matching.
C1_Witness ==
    /\ Finished /\ wrapped
    /\ btype = "dynamic"
    /\ options.matching_type = "Lazy"
    /\ \E i \in 1..Len(symbols) : symbols[i][1] = "Lit"
    /\ \E i \in 1..Len(symbols) : symbols[i][1] = "Match" /\ symbols[i][2] = MAX_MATCH

\* C2: what deflate_bytes_zlib_conf returns is the two header bytes, then a
\* complete stream that ends with its final block and fills whole bytes with
\* zero padding, then the Adler-32 of the whole input in four bytes, most
\* significant first (00 00 00 01 for the empty input), and nothing else.
C2_WrappedLayout ==
    (Finished /\ wrapped) =>
        /\ Len(sink) >= 2 + 1 + 4
        /\ sink[1] = 120
        /\ (sink[1] * 256 + sink[2]) % 31 = 0
        /\ LET r == Inflate(Body(sink))
               bits == BitsOfBytes(Body(sink))
           IN  /\ r.ok
               /\ (r.pos + 7) \div 8 = Len(Body(sink))
               /\ \A k \in (r.pos + 1)..Len(bits) : bits[k] = 0
        /\ SubSeq(sink, Len(sink) - 3, Len(sink)) = Adler32Bytes(input)
        /\ input = <<>> => SubSeq(sink, Len(sink) - 3, Len(sink)) = <<0, 0, 0, 1>>

\* A wrapped stream of an input of three bytes or more whose checksum has four
\* bytes that read differently backwards.
C2_Witness ==
    /\ Finished /\ wrapped
    /\ Len(input) >= 3
    /\ sink[Len(sink) - 3] # sink[Len(sink)]
    /\ sink[Len(sink) - 2] # sink[Len(sink) - 1]

\* The second header byte that stands for a level: FLEVEL 3 for Best, 2 for
\* Default, 1 or 0 for Fast.
HeaderBytesFor(level) ==
    IF level = "Best" THEN {218}
    ELSE IF level = "Default" THEN {156}
    ELSE {1, 94}

\* C3: the first byte of what deflate_bytes_zlib_conf returns is 0x78 and the
\* second is the one of 0x01, 0x5E, 0x9C, 0xDA that stands for the level of
\* the configuration; the two make a multiple of 31 and the preset-dictionary
\* bit is clear.
C3_HeaderMatchesLevel ==
    (wrapped /\ zpc # "call") =>
        /\ Len(sink) >= 2
        /\ sink[1] = 120
        /\ sink[2] \in HeaderBytesFor(options.level)
        /\ (sink[1] * 256 + sink[2]) % 31 = 0
        /\ (sink[2] \div 32) % 2 = 0

\* No call of write_huffman_lengths is under way.
HeaderIdle ==
    /\ literal_len_lengths = <<>>
    /\ distance_lenghts = <<>>
    /\ writer = <<>>
    /\ stdout = <<>>
    /\ hpc = "idle"
    /\ hlit = 0
    /\ hdist = 0
    /\ hclen = 0
    /\ huffman_table_lengths = <<>>
    /\ encoded = <<>>
    /\ idx = 0

\* Neither entry point has been called.
ZlibIdle ==
    /\ input = <<>>
    /\ options = [level |-> "Default", matching_type |-> "Lazy",
                  max_hash_checks |-> 1, lazy_threshold |-> 0]
    /\ wrapped = FALSE
    /\ sink = <<>>
    /\ checksum = NoChecksum
    /\ zpc = "idle"
    /\ lz_position = 0
    /\ lz_prev = <<2, 0>>
    /\ heads = <<>>
    /\ symbols = <<>>
    /\ btype = "none"

\* A call of longest_match: any data, position, prev_length and table.
InitLongestMatch ==
    /\ data \in DataSet
    /\ position \in 0..(Len(data) - 1)
    /\ hash_table \in TableSet(position)
    /\ prev_length \in 0..MAX_MATCH
    /\ max_hash_checks \in 1..MaxChecks
    /\ pc = "call"
    /\ current_head = 0

\* A call of get_match_length alone: any data and any two positions,
\* the end of the data included.
InitMatchLength ==
    /\ data \in DataSet
    /\ position \in 0..Len(data)
    /\ current_head \in 0..Len(data)
    /\ hash_table = [s \in 0..(WINDOW_SIZE - 1) |-> 0]
    /\ prev_length = 0
    /\ max_hash_checks = 1
    /\ pc = "length_call"

Init ==
    /\ InitLongestMatch \/ InitMatchLength
    /\ limit = 0
    /\ max_length = 0
    /\ best_length = 0
    /\ best_distance = 0
    /\ iters = 0
    /\ prev_head = 0
    /\ examined = <<>>
    /\ ret = <<0, 0>>
    /\ HeaderIdle
    /\ ZlibIdle

\* No call of longest_match is under way.
MatchIdle ==
    /\ data = <<>>
    /\ hash_table = <<>>
    /\ position = 0
    /\ prev_length = 0
    /\ max_hash_checks = 0
    /\ pc = "idle"
    /\ limit = 0
    /\ max_length = 0
    /\ current_head = 0
    /\ best_length = 0
    /\ best_distance = 0
    /\ iters = 0
    /\ prev_head = 0
    /\ examined = <<>>
    /\ ret = <<0, 0>>

\* The literal/length lengths handed to the header writer: a run of one length
\* for the first symbols, zeros, and the last symbols used again, over 257 or
\* more symbols.
LiteralLengthSet ==
    {Rep(a, x) \o Rep(0, MIN_LITERAL_LENGTHS + e - x - y) \o Rep(3, y) :
        a \in {2, 3}, x \in 0..MaxHeadRun, y \in 1..2, e \in 0..MaxExtraLit}

\* The distance lengths handed to the header writer: a run of one length, then
\* zeros; at least one entry.
DistanceLengthSet ==
    {Rep(c, z) \o Rep(0, w) : c \in {3, 4}, z \in 0..MaxDistRun, w \in 0..MaxDistZeros}
        \ {<<>>}

\* A call of write_huffman_lengths on an empty writer.
InitHeader ==
    /\ MatchIdle
    /\ ZlibIdle
    /\ literal_len_lengths \in LiteralLengthSet
    /\ distance_lenghts \in DistanceLengthSet
    /\ writer = <<>>
    /\ stdout = <<>>
    /\ hpc = "call"
    /\ hlit = 0
    /\ hdist = 0
    /\ hclen = 0
    /\ huffman_table_lengths = <<>>
    /\ encoded = <<>>
    /\ idx = 0

\* All byte strings of length 0..MaxInput over ByteSet.
InputSet == {<<>>} \cup UNION {[1..n -> ByteSet] : n \in 1..MaxInput}

\* The configurations: Compression::Fast, Default and Best, each with the
\* matching type and the lazy threshold it stands for here (Fast is greedy,
\* Default holds a match of the least length only, Best holds every match) and
\* with the least or the greatest budget of hash checks.
OptionsSet ==
    {[level |-> l[1], matching_type |-> l[2], max_hash_checks |-> c,
      lazy_threshold |-> l[3]] :
        l \in {<<"Fast", "Greedy", MAX_MATCH>>, <<"Default", "Lazy", 3>>,
               <<"Best", "Lazy", MAX_MATCH>>},
        c \in {1, MaxChecks}}

\* A call of deflate_bytes_conf or of deflate_bytes_zlib_conf.
InitZlib ==
    /\ MatchIdle
    /\ HeaderIdle
    /\ input \in InputSet
    /\ options \in OptionsSet
    /\ wrapped \in BOOLEAN
    /\ sink = <<>>
    /\ checksum = NoChecksum
    /\ zpc = "call"
    /\ lz_position = 0
    /\ lz_prev = <<2, 0>>
    /\ heads = <<>>
    /\ symbols = <<>>
    /\ btype = "none"

NextZlib ==
    \/ DeflateBytesConf
    \/ DeflateBytesZlibConf
    \/ CompressDataDynamic
    \/ Lz77Step
    \/ LongestMatchEntry
    \/ LongestMatchIter
    \/ LongestMatchLoopEnd
    \/ LongestMatchReturn
    \/ Lz77Decide
    \/ Lz77End
    \/ WriteStoredBlock
    \/ WriteFixedBlock
    \/ WriteDynamicBlock
    \/ HeaderCounts
    \/ HeaderMetaLength
    \/ HeaderCode
    \/ WriteBlockData
    \/ FinishStream
    \/ DeflateBytesReturn
    \/ ZlibTrailer

SpecZlib == InitZlib /\ [][NextZlib]_vars

NextHeader ==
    \/ HeaderCounts
    \/ HeaderMetaLength
    \/ HeaderCode

SpecHeader == InitHeader /\ [][NextHeader]_vars

Next ==
    \/ LongestMatchEntry
    \/ LongestMatchIter
    \/ LongestMatchLoopEnd
    \/ LongestMatchReturn
    \/ MatchLengthCall

Spec == Init /\ [][Next]_vars

====
